---------------------------- MODULE Spec2Model ----------------------------
(***************************************************************************)
(* A model of the single-symbol limit order book of gym-trading:          *)
(*   src/ob/orderbook.py                  class OrderBook                  *)
(*   src/envs/ob/orderbook_interface.py   class OrderBookInterface         *)
(*                                                                         *)
(* OrderBook drives two side books (self._bid_limits, self._ask_limits)   *)
(* through max / min / get_price / insert_order / remove_order_by_id /    *)
(* fill.  The class of these side books, and the attribute error_ask that *)
(* OrderBook.refresh reads, are not among the source files; they are      *)
(* modelled from the specification's sections 3, 4.1 and 4.2.             *)
(*                                                                         *)
(* Every public method is one action.  A method that raises leaves the    *)
(* assignments it made before the raise in place; the outcome of the call *)
(* is recorded in the history variable `last`.                             *)
(*                                                                         *)
(* Numbers: Python floats/ints of the sizes used here are exact, so       *)
(* float(val) in the property setters keeps the value; midquote, the only *)
(* division, is kept as a fraction.                                        *)
(***************************************************************************)
EXTENDS Integers, Sequences, FiniteSets

(* ------------------------------ bounds --------------------------------- *)
\* a call that would leave more resting orders than this in the book is not made
MaxOrders == 2
\* market / limit are not entered once order_count has reached this
MaxCount == 2

(* ------------------------------ inputs --------------------------------- *)
Sides == {"BID", "ASK"}
\* well-formed arguments
Prices == {1, 2}
Volumes == {1, 2}
Times == {1}
\* arguments that include what the validation refuses
AnySides == Sides \cup {"X"}
AnyPrices == {-1, 0, 1, 2}
AnyVolumes == {0, 1}
\* an optional argument: <<>> is None, <<x>> is the value x
DefaultId == {<<>>}
\* two timestamps, and the prices 0 (refused by limit) and 1
TwoTimes == {1, 2}
FewPrices == {0, 1}

(* --------------------------- program constants ------------------------- *)
\* float(9999999999) of the property setters, scaled to fit TLC's integers;
\* every real price is far below it
QUOTE_LIMIT == 999999999
\* the value OrderBook.refresh compares self.ask with: the sentinel of an
\* empty ask side ("unbounded", greater than any real price)
error_ask == QUOTE_LIMIT
\* the threshold OrderBook.market hands to fill: "unrestricted"
MARKET_THRESHOLD == 0

VARIABLES
    bid_limits,     \* self._bid_limits : price -> PriceLevel
    ask_limits,     \* self._ask_limits : price -> PriceLevel
    order_count,    \* self.order_count
    last_datetime,  \* self.last_datetime (<<>> is None)
    bid, ask, bid_vol, ask_vol,     \* cached by OrderBook.refresh
    spread, midquote,               \* cached too; <<>> is None, <<x>> a value
    imbalance, misbalance, smart_price,             \* declared by the interface
    last            \* history: the last call, its arguments and its outcome

book == <<bid_limits, ask_limits>>
cached == <<bid, ask, bid_vol, ask_vol, spread, midquote>>
interface_only == <<imbalance, misbalance, smart_price>>
counters == <<order_count, last_datetime>>
vars == <<bid_limits, ask_limits, order_count, last_datetime, bid, ask, bid_vol,
          ask_vol, spread, midquote, imbalance, misbalance, smart_price, last>>

(* ------------------------------ helpers -------------------------------- *)
Min2(a, b) == IF a <= b THEN a ELSE b

SetMax(S) == CHOOSE x \in S : \A y \in S : y <= x

SetMin(S) == CHOOSE x \in S : \A y \in S : x <= y

RECURSIVE SeqSum(_, _)
\* the sum of f(x) over the elements of a sequence, f given as a field name
SeqSum(s, field) ==
    IF s = <<>> THEN 0 ELSE Head(s)[field] + SeqSum(Tail(s), field)

\* s without its i-th element
RemoveAt(s, i) == [j \in 1..(Len(s) - 1) |-> IF j < i THEN s[j] ELSE s[j + 1]]


(* ------------- the side books (modelled from the specification) -------- *)
\* Order: {id, price, remaining volume, timestamp}; the side is that of the
\* side book holding it
Order(order_id, price, volume, timestamp) ==
    [id |-> order_id, price |-> price, vol |-> volume, ts |-> timestamp]

\* PriceLevel: {price, orders (FIFO), total_vol}
PriceLevel(price, orders, total_vol) ==
    [price |-> price, orders |-> orders, total_vol |-> total_vol]

\* a side book without levels
EmptyTree == [p \in {} |-> PriceLevel(p, <<>>, 0)]

\* tree without the level at price p
DeleteLevel(tree, p) == [q \in (DOMAIN tree) \ {p} |-> tree[q]]

\* tree with the level at price p set to level
PutLevel(tree, p, level) ==
    [q \in (DOMAIN tree) \cup {p} |-> IF q = p THEN level ELSE tree[q]]

\* _bid_limits.max(): the best price of the bid side, 0 when it is empty
TreeMax(tree) == IF DOMAIN tree = {} THEN 0 ELSE SetMax(DOMAIN tree)

\* _ask_limits.min(): the best price of the ask side, the unbounded sentinel
\* when it is empty
TreeMin(tree) == IF DOMAIN tree = {} THEN error_ask ELSE SetMin(DOMAIN tree)

\* best_price() of the side book of side `kind`
best_price(kind, tree) == IF kind = "BID" THEN TreeMax(tree) ELSE TreeMin(tree)

\* get_price(price) finds a level (it fails when there is none)
HasPrice(tree, price) == price \in DOMAIN tree

\* PriceLevel.insert: append at the FIFO tail
LevelInsert(level, order) ==
    PriceLevel(level.price, Append(level.orders, order), level.total_vol + order.vol)

\* SideBook.insert_order: create the order, create the level if absent
insert_order(tree, order_id, price, volume, timestamp) ==
    LET level == IF price \in DOMAIN tree THEN tree[price]
                 ELSE PriceLevel(price, <<>>, 0)
    IN  PutLevel(tree, price, LevelInsert(level, Order(order_id, price, volume, timestamp)))

\* the places <<price, index>> of the orders with this id
PlacesOfId(tree, order_id) ==
    {pl \in UNION {{<<p, i>> : i \in 1..Len(tree[p].orders)} : p \in DOMAIN tree} :
        tree[pl[1]].orders[pl[2]].id = order_id}

\* PriceLevel.remove_by_id applied at a known place, and the side book's
\* excision of a level that became empty
RemovePlace(tree, pl) ==
    LET level == tree[pl[1]]
        o == level.orders[pl[2]]
        left == PriceLevel(level.price, RemoveAt(level.orders, pl[2]),
                           level.total_vol - o.vol)
    IN  IF left.total_vol = 0 THEN DeleteLevel(tree, pl[1])
        ELSE PutLevel(tree, pl[1], left)

\* SideBook.remove_order_by_id: the side books it can leave; {} is
\* OrderNotFound.  (Ids are not unique by construction; which of several
\* orders with the id is removed is not fixed by the specification.)
remove_order_by_id(tree, order_id) ==
    {RemovePlace(tree, pl) : pl \in PlacesOfId(tree, order_id)}

\* a fill event {order_id, price, timestamp, filled_volume}
FillEvent(o, filled) ==
    [order_id |-> o.id, price |-> o.price, timestamp |-> o.ts, filled_volume |-> filled]

RECURSIVE consume(_, _)
\* PriceLevel.consume: take volume from the head order on; a partially
\* filled head stays, a filled order is removed
consume(level, volume) ==
    IF volume = 0 \/ level.orders = <<>>
    THEN [rem |-> volume, fills |-> <<>>, level |-> level]
    ELSE LET o == Head(level.orders)
         IN  IF o.vol <= volume
             THEN LET r == consume(PriceLevel(level.price, Tail(level.orders),
                                              level.total_vol - o.vol),
                                   volume - o.vol)
                  IN  [rem |-> r.rem, fills |-> <<FillEvent(o, o.vol)>> \o r.fills,
                       level |-> r.level]
             ELSE [rem |-> 0,
                   fills |-> <<FillEvent(o, volume)>>,
                   level |-> PriceLevel(level.price,
                                        <<[o EXCEPT !.vol = o.vol - volume]>>
                                            \o Tail(level.orders),
                                        level.total_vol - volume)]

\* the crossing rule; threshold 0 is "unrestricted"
Crosses(p, threshold, purchase_type) ==
    \/ threshold = MARKET_THRESHOLD
    \/ purchase_type = "BUY" /\ p <= threshold
    \/ purchase_type = "SELL" /\ p >= threshold

RECURSIVE fill(_, _, _, _, _)
\* SideBook.fill(threshold, volume, aggressor direction) of the side book of
\* side `kind`: the matching walk, best level first
fill(kind, tree, threshold, volume, purchase_type) ==
    IF volume = 0 \/ DOMAIN tree = {}
    THEN [rem |-> volume, fills |-> <<>>, tree |-> tree]
    ELSE LET p == best_price(kind, tree)
         IN  IF ~Crosses(p, threshold, purchase_type)
             THEN [rem |-> volume, fills |-> <<>>, tree |-> tree]
             ELSE LET take == Min2(volume, tree[p].total_vol)
                      c == consume(tree[p], take)
                      tree2 == IF c.level.total_vol = 0 THEN DeleteLevel(tree, p)
                               ELSE PutLevel(tree, p, c.level)
                      r == fill(kind, tree2, threshold, volume - take + c.rem,
                                purchase_type)
                  IN  [rem |-> r.rem, fills |-> c.fills \o r.fills, tree |-> r.tree]

\* the number of resting orders of a side book
Places(tree) == UNION {{<<p, i>> : i \in 1..Len(tree[p].orders)} : p \in DOMAIN tree}

NumOrders(tree) == Cardinality(Places(tree))

RECURSIVE TotalOver(_, _)
\* the sum of total_vol over the levels at the prices P
TotalOver(tree, P) ==
    IF P = {} THEN 0
    ELSE LET p == CHOOSE q \in P : TRUE IN tree[p].total_vol + TotalOver(tree, P \ {p})

\* the total resting volume of a side book
TotalVolume(tree) == TotalOver(tree, DOMAIN tree)

(* ----------------------- OrderBookInterface setters -------------------- *)
\* bid.setter / ask.setter accept val (they raise ValueError otherwise)
QuoteSetterOk(val) == ~(val > QUOTE_LIMIT \/ val < 0)

\* bid_vol.setter / ask_vol.setter accept val
VolSetterOk(val) == ~(val < 0)

\* an optional number: <<>> is None, <<x>> is the value x
NoValue == <<>>

\* spread.setter accepts val; `val < 0` raises on None
SpreadSetterOk(val) == val # NoValue /\ ~(val[1] < 0)

\* midquote.setter accepts val, the fraction num / den; `val < 0` raises on
\* None
MidquoteSetterOk(val) == val # NoValue /\ ~(val[1].num < 0)

(* --------------------------- OrderBook.refresh ------------------------- *)
\* refresh on the side books bl, al: the values of the cached fields when it
\* ends, and whether it ended by raising.  bid, ask, bid_vol and ask_vol fall
\* back in their except clauses; the except clauses of spread and midquote
\* assign None, which their setters refuse: that exception leaves refresh,
\* with the fields assigned so far kept.
refresh(bl, al) ==
    LET b0 == TreeMax(bl)
        nbid == IF QuoteSetterOk(b0) THEN b0 ELSE 0
        a0 == TreeMin(al)
        nask == IF QuoteSetterOk(a0) THEN a0 ELSE error_ask
        nbid_vol == IF HasPrice(bl, nbid) /\ VolSetterOk(bl[nbid].total_vol)
                    THEN bl[nbid].total_vol ELSE 0
        nask_vol == IF HasPrice(al, nask) /\ VolSetterOk(al[nask].total_vol)
                    THEN al[nask].total_vol ELSE 0
        \* what the try clause assigns, or None from the except clause
        spread_try == <<nask - nbid>>
        spread_val == IF nask # error_ask /\ SpreadSetterOk(spread_try)
                      THEN spread_try ELSE NoValue
        spread_ok == SpreadSetterOk(spread_val)
        midquote_try == <<[num |-> nask + nbid, den |-> 2]>>
        midquote_val == IF nask # error_ask /\ MidquoteSetterOk(midquote_try)
                        THEN midquote_try ELSE NoValue
        midquote_ok == MidquoteSetterOk(midquote_val)
    IN  [bid |-> nbid, ask |-> nask, bid_vol |-> nbid_vol, ask_vol |-> nask_vol,
         spread |-> IF spread_ok THEN spread_val ELSE spread,
         midquote |-> IF spread_ok /\ midquote_ok THEN midquote_val ELSE midquote,
         raised |-> ~(spread_ok /\ midquote_ok)]

\* the cached fields take the values refresh left
ApplyRefresh(r) ==
    /\ bid' = r.bid
    /\ ask' = r.ask
    /\ bid_vol' = r.bid_vol
    /\ ask_vol' = r.ask_vol
    /\ spread' = r.spread
    /\ midquote' = r.midquote

(* ------------------------------ the calls ------------------------------ *)
\* the record of a call in `last`
Call(op, side, price, volume, cancel, order_id, timestamp, outcome, fills, rem) ==
    [op |-> op, side |-> side, price |-> price, volume |-> volume, cancel |-> cancel,
     order_id |-> order_id, timestamp |-> timestamp, outcome |-> outcome,
     fills |-> fills, rem |-> rem]

\* outcomes: "fills" the call returned its list of fill events; "none" it
\* returned None; the others name the exception that left the call
ErrorOutcomes == {"InvalidVolume", "InvalidPrice", "InvalidSide", "OrderNotFound",
                  "RefreshRaised"}

\* a call that raised before it changed anything
Rejected(call) ==
    /\ last' = call
    /\ UNCHANGED <<book, counters, cached, interface_only>>

\* `if order_id is None: order_id = self.order_count`
default_order_id(order_id) == IF order_id = <<>> THEN order_count ELSE order_id[1]

\* a slip: the directions exchanged
purchase_type_exchanged(side) == IF side = "BID" THEN "SELL" ELSE "BUY"

\* purchase_type of market and limit
purchase_type(side) == IF side = "BID" THEN "BUY" ELSE "SELL"

\* the side whose book is searched for matches
search_side(side) == IF side = "BID" THEN "ASK" ELSE "BID"

TreeOf(kind) == IF kind = "BID" THEN bid_limits ELSE ask_limits

\* a slip: order_tree taken to be the search tree
order_side_is_search_side(side) == IF side = "BID" THEN "ASK" ELSE "BID"

\* the side whose book takes what remains of a limit order (order_tree)
order_side(side) == side

\* a slip: the result of fill not assigned back to volume
leftover_is_input(f, volume) == volume

\* `volume, filled_orders = search_tree.fill(...)`: volume becomes what fill
\* left unconsumed
leftover(f, volume) == f.rem

\* a slip: what remains is inserted even when nothing remains
limit_rests_empty_leftover(volume, cancel) == ~cancel

\* a slip: the cancel flag ignored
limit_rests_whatever_cancel(volume, cancel) == volume > 0

\* what remains of a limit order rests
limit_rests(volume, cancel) == volume > 0 /\ ~cancel

\* a slip: the counter left as it is
counted_not(count) == count

\* `self.order_count += 1`
counted(count) == count + 1

\* the end of market and limit: refresh, then the counter and the time
Finish(op, side, price, volume, cancel, oid, timestamp, f, nbl, nal) ==
    LET r == refresh(nbl, nal)
    IN  /\ bid_limits' = nbl
        /\ ask_limits' = nal
        /\ ApplyRefresh(r)
        /\ UNCHANGED interface_only
        /\ IF r.raised
           THEN /\ UNCHANGED counters
                /\ last' = Call(op, side, price, volume, cancel, oid, timestamp,
                                "RefreshRaised", f.fills, f.rem)
           ELSE /\ order_count' = counted(order_count)
                /\ last_datetime' = <<timestamp>>
                /\ last' = Call(op, side, price, volume, cancel, oid, timestamp,
                                "fills", f.fills, f.rem)

\* OrderBook.market
market_call(side, volume, timestamp, order_id) ==
    LET oid == default_order_id(order_id)
        call(outcome) == Call("market", side, 0, volume, FALSE, oid, timestamp,
                              outcome, <<>>, volume)
    IN  /\ order_count < MaxCount
        /\ IF volume = 0 THEN Rejected(call("InvalidVolume"))
           ELSE IF side \notin Sides THEN Rejected(call("InvalidSide"))
           ELSE LET f == fill(search_side(side), TreeOf(search_side(side)),
                              MARKET_THRESHOLD, volume, purchase_type(side))
                    nbl == IF side = "BID" THEN bid_limits ELSE f.tree
                    nal == IF side = "BID" THEN f.tree ELSE ask_limits
                IN  Finish("market", side, 0, volume, FALSE, oid, timestamp, f, nbl, nal)

\* a slip: price 0 let through
invalid_price_negative_only(price) == price < 0

\* `if price <= 0: raise ValueError("Invalid price ...")`
invalid_price(price) == price <= 0

\* OrderBook.limit, entered directly (op = "limit") or from maker_or_cancel
\* and immediate_or_cancel
limit_call(op, side, price, volume, timestamp, cancel, order_id) ==
    LET oid == default_order_id(order_id)
        call(outcome) == Call(op, side, price, volume, cancel, oid, timestamp,
                              outcome, <<>>, volume)
    IN  /\ order_count < MaxCount
        /\ IF volume = 0 THEN Rejected(call("InvalidVolume"))
           ELSE IF invalid_price(price) THEN Rejected(call("InvalidPrice"))
           ELSE IF side \notin Sides THEN Rejected(call("InvalidSide"))
           ELSE LET f == fill(search_side(side), TreeOf(search_side(side)),
                              price, volume, purchase_type(side))
                    vol == leftover(f, volume)
                    searched == [kind \in Sides |->
                                    IF kind = search_side(side) THEN f.tree
                                    ELSE TreeOf(kind)]
                    after == [kind \in Sides |->
                                 IF kind = order_side(side) /\ limit_rests(vol, cancel)
                                 THEN insert_order(searched[kind], oid, price, vol,
                                                   timestamp)
                                 ELSE searched[kind]]
                IN  /\ NumOrders(after["BID"]) + NumOrders(after["ASK"]) <= MaxOrders
                    /\ Finish(op, side, price, volume, cancel, oid, timestamp,
                              [f EXCEPT !.rem = vol], after["BID"], after["ASK"])

\* a maker_or_cancel whose test is strict
maker_bbool_strict(side, price) ==
    IF side = "BID" THEN TreeMax(bid_limits) > price ELSE TreeMin(ask_limits) < price

\* a maker_or_cancel that tests the opposite side's best price instead
maker_bbool_opposite_side(side, price) ==
    IF side = "BID" THEN TreeMin(ask_limits) <= price ELSE TreeMax(bid_limits) >= price

\* the test of maker_or_cancel: the own side's best price against the price
maker_bbool(side, price) ==
    IF side = "BID" THEN TreeMax(bid_limits) >= price ELSE TreeMin(ask_limits) <= price

\* the test of immediate_or_cancel: the opposite side's best price
immediate_bbool(side, price) ==
    IF side = "BID" THEN TreeMin(ask_limits) <= price ELSE TreeMax(bid_limits) >= price

\* OrderBook.maker_or_cancel
maker_or_cancel_call(side, price, volume, timestamp, order_id) ==
    LET oid == default_order_id(order_id)
        call(outcome) == Call("maker_or_cancel", side, price, volume, FALSE, oid,
                              timestamp, outcome, <<>>, volume)
    IN  IF volume = 0 THEN Rejected(call("InvalidVolume"))
        ELSE IF side \notin Sides THEN Rejected(call("InvalidSide"))
        ELSE IF maker_bbool(side, price)
             THEN limit_call("maker_or_cancel", side, price, volume, timestamp, FALSE,
                             <<oid>>)
             ELSE Rejected(call("none"))

\* OrderBook.immediate_or_cancel
immediate_or_cancel_call(side, price, volume, timestamp, order_id) ==
    LET oid == default_order_id(order_id)
        call(outcome) == Call("immediate_or_cancel", side, price, volume, TRUE, oid,
                              timestamp, outcome, <<>>, volume)
    IN  IF volume = 0 THEN Rejected(call("InvalidVolume"))
        ELSE IF side \notin Sides THEN Rejected(call("InvalidSide"))
        ELSE IF immediate_bbool(side, price)
             THEN limit_call("immediate_or_cancel", side, price, volume, timestamp,
                             TRUE, <<oid>>)
             ELSE Rejected(call("none"))

\* a slip: the two side books of cancel exchanged
cancel_side_exchanged(side) == IF side = "BID" THEN "ASK" ELSE "BID"

\* the side book cancel looks in (order_tree)
cancel_side(side) == side

\* OrderBook.cancel: no refresh, no counter, no time
cancel_call(side, order_id) ==
    LET call(outcome) == Call("cancel", side, 0, 0, FALSE, order_id, 0, outcome, <<>>, 0)
    IN  IF side \notin Sides THEN Rejected(call("InvalidSide"))
        ELSE LET kind == cancel_side(side)
                 left == remove_order_by_id(TreeOf(kind), order_id)
             IN  IF left = {} THEN Rejected(call("OrderNotFound"))
                 ELSE \E t \in left :
                        /\ bid_limits' = IF kind = "BID" THEN t ELSE bid_limits
                        /\ ask_limits' = IF kind = "BID" THEN ask_limits ELSE t
                        /\ last' = call("none")
                        /\ UNCHANGED <<counters, cached, interface_only>>

(* --------------------------- the state machine ------------------------- *)
\* OrderBookInterface.__init__ and OrderBook.__init__
Init ==
    /\ bid_limits = EmptyTree
    /\ ask_limits = EmptyTree
    /\ order_count = 0
    /\ last_datetime = <<>>
    /\ bid = 0
    /\ ask = QUOTE_LIMIT
    /\ bid_vol = 0
    /\ ask_vol = 0
    /\ spread = <<0>>
    /\ midquote = <<[num |-> 0, den |-> 2]>>
    /\ imbalance = 0
    /\ misbalance = 0
    /\ smart_price = 0
    /\ last = Call("init", "BID", 0, 0, FALSE, 0, 0, "init", <<>>, 0)

\* the calls a caller can make, with arguments drawn from the given sets
Market(sides, volumes, times, ids) ==
    \E side \in sides, volume \in volumes, timestamp \in times, order_id \in ids :
        market_call(side, volume, timestamp, order_id)

Limit(sides, prices, volumes, times, ids) ==
    \E side \in sides, price \in prices, volume \in volumes, timestamp \in times,
       cancel \in BOOLEAN, order_id \in ids :
        limit_call("limit", side, price, volume, timestamp, cancel, order_id)

MakerOrCancel(sides, prices, volumes, times, ids) ==
    \E side \in sides, price \in prices, volume \in volumes, timestamp \in times,
       order_id \in ids :
        maker_or_cancel_call(side, price, volume, timestamp, order_id)

ImmediateOrCancel(sides, prices, volumes, times, ids) ==
    \E side \in sides, price \in prices, volume \in volumes, timestamp \in times,
       order_id \in ids :
        immediate_or_cancel_call(side, price, volume, timestamp, order_id)

Cancel(sides) ==
    \E side \in sides, order_id \in 0..MaxCount :
        cancel_call(side, order_id)

\* well-formed calls, ids assigned by the counter
Next ==
    \/ Market(Sides, Volumes, Times, DefaultId)
    \/ Limit(Sides, Prices, Volumes, Times, DefaultId)
    \/ MakerOrCancel(Sides, Prices, Volumes, Times, DefaultId)
    \/ ImmediateOrCancel(Sides, Prices, Volumes, Times, DefaultId)
    \/ Cancel(Sides)

Spec == Init /\ [][Next]_vars

\* calls with any arguments, those the validation refuses included
NextAnyInput ==
    \/ Market(AnySides, AnyVolumes, Times, DefaultId)
    \/ Limit(AnySides, AnyPrices, AnyVolumes, Times, DefaultId)
    \/ MakerOrCancel(AnySides, AnyPrices, AnyVolumes, Times, DefaultId)
    \/ ImmediateOrCancel(AnySides, AnyPrices, AnyVolumes, Times, DefaultId)
    \/ Cancel(AnySides)

SpecAnyInput == Init /\ [][NextAnyInput]_vars

\* calls at two different times, at one price, those the validation refuses
\* included
NextTimed ==
    \/ Market(AnySides, AnyVolumes, TwoTimes, DefaultId)
    \/ Limit(AnySides, FewPrices, AnyVolumes, TwoTimes, DefaultId)
    \/ MakerOrCancel(AnySides, FewPrices, AnyVolumes, TwoTimes, DefaultId)
    \/ ImmediateOrCancel(AnySides, FewPrices, AnyVolumes, TwoTimes, DefaultId)
    \/ Cancel(AnySides)

SpecTimed == Init /\ [][NextTimed]_vars


(* ---------------------- reading a step of the book --------------------- *)
\* the side books after the step
TreeOfNext(kind) == IF kind = "BID" THEN bid_limits' ELSE ask_limits'

LimitOps == {"limit", "maker_or_cancel", "immediate_or_cancel"}

\* the call went through the matching walk (it got past the validation, and,
\* for maker_or_cancel / immediate_or_cancel, past the test)
Walked(c) == c.op \in LimitOps \cup {"market"} /\ c.outcome \in {"fills", "RefreshRaised"}

\* the call returned
Completed(c) == c.outcome \in {"fills", "none"}

\* the sum of filled_volume over fill events
Filled(fills) == SeqSum(fills, "filled_volume")

\* both sides hold resting orders
TwoSided == DOMAIN bid_limits # {} /\ DOMAIN ask_limits # {}

(* -------------------------------- C1 ----------------------------------- *)
\* C1: no crossed book.  In every state reached from the empty book by
\* calls (so after every completed limit or market call, and also after
\* one that raised), if both sides hold resting orders then the best bid
\* price is strictly less than the best ask price.
C1_NoCrossedBook == TwoSided => TreeMax(bid_limits) < TreeMin(ask_limits)

\* a marketable limit order that matched, rested its remainder and returned,
\* with both sides non-empty
C1_Witness ==
    /\ last.op = "limit" /\ last.outcome = "fills"
    /\ last.fills # <<>> /\ last.rem > 0
    /\ TwoSided

(* -------------------------------- C2 ----------------------------------- *)
\* C2 as stated: volume conservation for limit.  For every limit call that
\* completes (entered directly or from maker_or_cancel /
\* immediate_or_cancel), the input volume is the sum of filled_volume over
\* the returned fills plus the volume added to the own side, the volume
\* added being 0 when cancel is true or nothing is left; and the volume
\* removed from the opposite side is the sum of the returned fills.
C2_AsStated ==
    [][(last'.op \in LimitOps /\ last'.outcome = "fills") =>
        LET c == last'
            own == c.side
            opp == search_side(c.side)
            added == TotalVolume(TreeOfNext(own)) - TotalVolume(TreeOf(own))
            removed == TotalVolume(TreeOf(opp)) - TotalVolume(TreeOfNext(opp))
        IN  /\ c.volume = Filled(c.fills) + added
            /\ removed = Filled(c.fills)
            /\ (c.cancel \/ c.volume = Filled(c.fills)) => added = 0]_vars

\* C2 amended: for every limit call that completes, the volume removed from
\* the opposite side is the sum of filled_volume over the returned fills;
\* with cancel false the input volume is that sum plus the volume added to
\* the own side; with cancel true nothing is added to the own side and the
\* sum is at most the input volume, the unfilled remainder being discarded.
C2_VolumeConservation ==
    [][(last'.op \in LimitOps /\ last'.outcome = "fills") =>
        LET c == last'
            own == c.side
            opp == search_side(c.side)
            added == TotalVolume(TreeOfNext(own)) - TotalVolume(TreeOf(own))
            removed == TotalVolume(TreeOf(opp)) - TotalVolume(TreeOfNext(opp))
        IN  /\ removed = Filled(c.fills)
            /\ IF c.cancel
               THEN added = 0 /\ Filled(c.fills) <= c.volume
               ELSE c.volume = Filled(c.fills) + added /\ added >= 0]_vars

\* a completed limit call that was partly filled and rested the rest
C2_Witness ==
    /\ last.op = "limit" /\ last.outcome = "fills" /\ ~last.cancel
    /\ last.fills # <<>>
    /\ Filled(last.fills) < last.volume
    /\ \E p \in DOMAIN TreeOf(last.side) :
          \E i \in 1..Len(TreeOf(last.side)[p].orders) :
              LET o == TreeOf(last.side)[p].orders[i]
              IN  o.price = last.price /\ o.vol = last.volume - Filled(last.fills)

(* -------------------------------- C3 ----------------------------------- *)
\* for the aggressor of side `side`, price p is strictly better than q
Better(side, p, q) == IF side = "BID" THEN p < q ELSE p > q

\* a resting price p crosses the call's threshold: always for a market
\* order; for a limit order of price `price`, p <= price for a buyer and
\* p >= price for a seller
CrossesCall(c, p) ==
    \/ c.op = "market"
    \/ c.side = "BID" /\ p <= c.price
    \/ c.side = "ASK" /\ p >= c.price

C3_WitnessStop ==
    /\ Walked(last) /\ last.op = "limit"
    /\ last.fills # <<>> /\ last.rem > 0
    /\ DOMAIN TreeOf(search_side(last.side)) # {}

(* -------------------------------- C4 ----------------------------------- *)
\* after is before (the orders of one level, in FIFO order) with its first k
\* orders gone and, at most, the volume of the next one reduced
HeadConsumed(before, after, k) ==
    /\ Len(after) = Len(before) - k
    /\ \A j \in 1..Len(after) :
          IF j = 1
          THEN /\ after[1].vol >= 1
               /\ after[1].vol <= before[k + 1].vol
               /\ after[1] = [before[k + 1] EXCEPT !.vol = after[1].vol]
          ELSE after[j] = before[k + j]

\* the orders of the level of `tree` at price p, none when there is no level
OrdersAt(tree, p) == IF p \in DOMAIN tree THEN tree[p].orders ELSE <<>>

\* C4: FIFO fairness.  A market or limit call changes a level of the side
\* it matches against only from the head: some first k orders are gone, the
\* next one has lost at most part of its volume and stays at the head, and
\* every order behind it is untouched and keeps its order; so no volume is
\* taken from an order while one inserted before it at the same price still
\* has volume.  The walk adds nothing to the matched side.
C4_Fifo ==
    [][Walked(last') =>
        LET opp == search_side(last'.side)
            T == TreeOf(opp)
            Tn == TreeOfNext(opp)
        IN  /\ DOMAIN Tn \subseteq DOMAIN T
            /\ \A p \in DOMAIN T :
                  \E k \in 0..Len(T[p].orders) :
                      HeadConsumed(T[p].orders, OrdersAt(Tn, p), k)]_vars

\* a walk that filled the first order of a level whole and the second one
\* in part, the second one now heading the level
C4_Witness ==
    /\ Walked(last)
    /\ Len(last.fills) = 2
    /\ last.fills[1].price = last.fills[2].price
    /\ LET T == TreeOf(search_side(last.side))
           p == last.fills[2].price
       IN  /\ p \in DOMAIN T
           /\ T[p].orders[1].id = last.fills[2].order_id

(* -------------------------------- C5 ----------------------------------- *)
\* C5 as stated: market orders never rest and are price-unrestricted.  Every
\* market(side, volume) call with volume > 0 leaves the own side as it was
\* and returns fills whose filled_volume sums to min(volume, total resting
\* volume of the opposite side before the call), for BID and ASK alike.
C5_AsStated ==
    [][(last'.op = "market" /\ last'.volume > 0 /\ last'.side \in Sides) =>
        LET c == last'
            opp == search_side(c.side)
        IN  /\ TreeOfNext(c.side) = TreeOf(c.side)
            /\ c.outcome = "fills"
            /\ Filled(c.fills) = Min2(c.volume, TotalVolume(TreeOf(opp)))]_vars

\* what holds of the walk of a market call, whether or not the call then
\* returns: the own side is untouched and the walk takes
\* min(volume, opposite volume), whatever the resting prices
C5_MarketWalk ==
    [][(last'.op = "market" /\ Walked(last')) =>
        LET c == last'
            opp == search_side(c.side)
        IN  /\ TreeOfNext(c.side) = TreeOf(c.side)
            /\ Filled(c.fills) = Min2(c.volume, TotalVolume(TreeOf(opp)))
            /\ TotalVolume(TreeOf(opp)) - TotalVolume(TreeOfNext(opp)) = Filled(c.fills)]_vars

(* -------------------------------- C6 ----------------------------------- *)
ValidationErrors == {"InvalidVolume", "InvalidPrice", "InvalidSide"}

\* the call has an argument the validation refuses
Refused(c) ==
    \/ c.op \in LimitOps \cup {"market"} /\ c.volume = 0
    \/ c.op = "limit" /\ c.price <= 0
    \/ c.op \in LimitOps \cup {"market", "cancel"} /\ c.side \notin Sides

\* C6: validation failures apply no mutation.  A market, limit,
\* maker_or_cancel or immediate_or_cancel call with volume 0, a limit call
\* with price <= 0, and any of these calls or a cancel with a side outside
\* {BID, ASK} end in an error, with both side books, order_count,
\* last_datetime and every cached field as before the call.
C6_ValidationNoMutation ==
    [][Refused(last') =>
        /\ last'.outcome \in ValidationErrors
        /\ UNCHANGED <<book, counters, cached, interface_only>>]_vars

\* a limit call refused for its price alone, on a book with both sides
\* non-empty
C6_Witness ==
    /\ last.op = "limit" /\ last.outcome = "InvalidPrice"
    /\ last.volume > 0 /\ last.side \in Sides
    /\ TwoSided

(* -------------------------------- C7 ----------------------------------- *)
\* Tn is T without the order at place pl = <<price, index>>: the other
\* levels are as they were; the level of the order is gone if the order was
\* its only one, and otherwise has lost this order and its volume, the other
\* orders keeping their order
WithoutOrder(T, Tn, pl) ==
    LET p == pl[1]
        i == pl[2]
        O == T[p].orders
    IN  /\ DOMAIN Tn \subseteq DOMAIN T
        /\ \A q \in (DOMAIN T) \ {p} : q \in DOMAIN Tn /\ Tn[q] = T[q]
        /\ IF Len(O) = 1 THEN p \notin DOMAIN Tn
           ELSE /\ p \in DOMAIN Tn
                /\ Tn[p].price = T[p].price
                /\ Tn[p].total_vol = T[p].total_vol - O[i].vol
                /\ Len(Tn[p].orders) = Len(O) - 1
                /\ \A j \in 1..(Len(O) - 1) :
                      Tn[p].orders[j] = IF j < i THEN O[j] ELSE O[j + 1]

\* C7: cancel(side, order_id) with a valid side.  If an order with the id
\* rests on that side, one such order is removed: its level loses the
\* order's remaining volume and is deleted if it becomes empty, and every
\* other order on both sides is as before.  If none rests on that side the
\* call fails with OrderNotFound and the book is as before, also when an
\* order with the id rests on the other side.
C7_Cancel ==
    [][(last'.op = "cancel" /\ last'.side \in Sides) =>
        LET c == last'
            T == TreeOf(c.side)
            Tn == TreeOfNext(c.side)
            other == search_side(c.side)
        IN  /\ TreeOfNext(other) = TreeOf(other)
            /\ UNCHANGED counters
            /\ IF PlacesOfId(T, c.order_id) # {}
               THEN /\ c.outcome = "none"
                    /\ \E pl \in PlacesOfId(T, c.order_id) : WithoutOrder(T, Tn, pl)
               ELSE /\ c.outcome = "OrderNotFound"
                    /\ Tn = T]_vars

\* a cancel that removed one order of a level and left another one there
C7_Witness ==
    /\ last.op = "cancel" /\ last.outcome = "none"
    /\ \E p \in DOMAIN TreeOf(last.side) : TreeOf(last.side)[p].orders # <<>>

\* a cancel that failed while the other side holds an order with the id
C7_WitnessOtherSide ==
    /\ last.op = "cancel" /\ last.outcome = "OrderNotFound"
    /\ last.side \in Sides
    /\ PlacesOfId(TreeOf(search_side(last.side)), last.order_id) # {}

(* -------------------------------- C8 ----------------------------------- *)
\* the opposite side's best price makes the order marketable
Marketable(side, price) ==
    IF side = "BID"
    THEN DOMAIN ask_limits # {} /\ SetMin(DOMAIN ask_limits) <= price
    ELSE DOMAIN bid_limits # {} /\ SetMax(DOMAIN bid_limits) >= price

\* C8 as stated: a non-marketable immediate_or_cancel is a no-op.  For
\* immediate_or_cancel(side, price, volume) with volume > 0 and an opposite
\* side that does not make the order marketable (an empty opposite side
\* included), no fill is produced, the call returns an empty list of fills,
\* and both side books, order_count and last_datetime are as before.
C8_AsStated ==
    [][(/\ last'.op = "immediate_or_cancel"
        /\ last'.volume > 0 /\ last'.side \in Sides
        /\ ~Marketable(last'.side, last'.price)) =>
        /\ last'.outcome = "fills"
        /\ last'.fills = <<>>
        /\ UNCHANGED <<book, counters>>]_vars

\* what holds: such a call produces no fill and changes nothing (it returns
\* None, not a list)
C8_NoEffect ==
    [][(/\ last'.op = "immediate_or_cancel"
        /\ last'.volume > 0 /\ last'.side \in Sides
        /\ ~Marketable(last'.side, last'.price)) =>
        /\ last'.outcome = "none"
        /\ last'.fills = <<>>
        /\ UNCHANGED <<book, counters, cached, interface_only>>]_vars

(* -------------------------------- C9 ----------------------------------- *)
\* C9: immediate-or-cancel never rests.  Every immediate_or_cancel call and
\* every limit call with cancel true leaves the levels and orders of the own
\* side as they were, also when the aggressor is filled in part only (and
\* also when the call then raises); the opposite side gains no order and no
\* volume.
C9_NeverRests ==
    [][(/\ last'.op \in {"immediate_or_cancel", "limit"}
        /\ last'.cancel /\ last'.side \in Sides) =>
        LET opp == search_side(last'.side)
        IN  /\ TreeOfNext(last'.side) = TreeOf(last'.side)
            /\ TotalVolume(TreeOfNext(opp)) <= TotalVolume(TreeOf(opp))
            /\ NumOrders(TreeOfNext(opp)) <= NumOrders(TreeOf(opp))
            /\ DOMAIN TreeOfNext(opp) \subseteq DOMAIN TreeOf(opp)]_vars

\* an immediate_or_cancel that was filled in part, returned, and left its
\* remainder nowhere
C9_Witness ==
    /\ last.op = "immediate_or_cancel" /\ last.outcome = "fills"
    /\ last.fills # <<>>
    /\ Filled(last.fills) < last.volume

\* the same for a limit call with cancel true
C9_WitnessLimit ==
    /\ last.op = "limit" /\ last.cancel /\ last.outcome = "fills"
    /\ last.fills # <<>>
    /\ Filled(last.fills) < last.volume

(* -------------------------------- C10 ---------------------------------- *)
\* the cached top of book has the values recomputed from the side books
TopOfBookFresh ==
    /\ bid = (IF DOMAIN bid_limits = {} THEN 0 ELSE SetMax(DOMAIN bid_limits))
    /\ ask = (IF DOMAIN ask_limits = {} THEN error_ask ELSE SetMin(DOMAIN ask_limits))
    /\ bid_vol = (IF DOMAIN bid_limits = {} THEN 0
                  ELSE bid_limits[SetMax(DOMAIN bid_limits)].total_vol)
    /\ ask_vol = (IF DOMAIN ask_limits = {} THEN 0
                  ELSE ask_limits[SetMin(DOMAIN ask_limits)].total_vol)

\* C10 as stated: the cached top of book is never stale.  After every
\* completed mutating call (market, limit, maker_or_cancel,
\* immediate_or_cancel, cancel), bid, ask, bid_vol and ask_vol have the
\* values recomputed from the side books.
C10_AsStated ==
    (last.op \in LimitOps \cup {"market", "cancel"} /\ Completed(last)) => TopOfBookFresh

\* what holds: after a market or limit call that went through refresh,
\* returning or not, the four fields are fresh
C10_FreshAfterRefresh == Walked(last) => TopOfBookFresh

(* -------------------------------- C11 ---------------------------------- *)
\* a market or limit call whose refresh ran to its end is the last call
Refreshed == Walked(last) /\ last.outcome = "fills"

\* C11 as stated: the empty-side boundary of the analytics.  After a refresh
\* on a book where either side is empty, spread and midquote have no value
\* and imbalance is 0; on a fully empty book also bid = 0, ask = the
\* unbounded sentinel, bid_vol = 0 and ask_vol = 0; when both sides hold
\* orders, spread = ask - bid and midquote = (ask + bid) / 2.
C11_AsStated ==
    Refreshed =>
        /\ ~TwoSided => spread = NoValue /\ midquote = NoValue /\ imbalance = 0
        /\ DOMAIN bid_limits = {} /\ DOMAIN ask_limits = {} =>
              bid = 0 /\ ask = QUOTE_LIMIT /\ bid_vol = 0 /\ ask_vol = 0
        /\ TwoSided => /\ spread = <<ask - bid>>
                       /\ midquote = <<[num |-> ask + bid, den |-> 2]>>

\* what does hold after a refresh that ran to its end: the ask side is not
\* empty, spread = ask - bid and midquote = (ask + bid) / 2 with bid = 0
\* for an empty bid side, and imbalance is 0
C11_AfterRefresh ==
    Refreshed =>
        /\ DOMAIN ask_limits # {}
        /\ spread = <<ask - bid>>
        /\ midquote = <<[num |-> ask + bid, den |-> 2]>>
        /\ imbalance = 0

\* spread and midquote have a value in every state
C11_NeverUndefined == spread # NoValue /\ midquote # NoValue

\* a refresh ran to its end on a book with an empty bid side
C11_OneSided == Refreshed /\ DOMAIN bid_limits = {} /\ DOMAIN ask_limits # {}

(* -------------------------------- C12 ---------------------------------- *)
\* C12 as stated: refresh never fails.  In every book state reached by
\* valid market, limit, maker_or_cancel, immediate_or_cancel and cancel
\* calls, a call that got to the matching walk ends with refresh completing:
\* it returns its fills (having incremented order_count and set
\* last_datetime) and does not abort after the book was mutated.
C12_AsStated == Walked(last) => last.outcome = "fills"

\* what does hold: refresh raises exactly when it finds the ask side empty
C12_RaisesOnEmptyAsk ==
    Walked(last) => (last.outcome = "RefreshRaised" <=> DOMAIN ask_limits = {})

\* what does hold: the step that ends with refresh raising keeps the changes
\* of the walk and of the insert, and leaves order_count and last_datetime
C12_AbortKeepsCounters ==
    [][last'.outcome = "RefreshRaised" => UNCHANGED counters]_vars

\* a call aborted in refresh after it had rested an order
C12_AbortAfterMutation ==
    /\ last.outcome = "RefreshRaised"
    /\ last.op = "limit"
    /\ DOMAIN bid_limits # {}
    /\ order_count = 0

(* -------------------------------- C13 ---------------------------------- *)
\* C13 as stated: misbalance is maintained on every mutation.  After every
\* completed mutating call misbalance equals the sum of total_vol over all
\* bid levels minus the sum of total_vol over all ask levels (all levels,
\* not only the best); it is 0 when both sides are empty.
C13_AsStated ==
    Completed(last) =>
        misbalance = TotalVolume(bid_limits) - TotalVolume(ask_limits)

\* what does hold: no call assigns misbalance, which keeps the 0 of __init__
C13_NeverAssigned == misbalance = 0

\* a completed call has left unequal volumes on the two sides
C13_Unbalanced ==
    Completed(last) /\ TotalVolume(bid_limits) # TotalVolume(ask_limits)

(* -------------------------------- C14 ---------------------------------- *)
\* C14: maker_or_cancel is post-only.  On every book reached by valid
\* calls, a maker_or_cancel call takes no liquidity: it produces no fill
\* event and leaves the opposite side's levels and orders as they were; a
\* maker_or_cancel whose price crosses the opposite side's best price is
\* dropped (it returns nothing and changes neither side book), not matched.
C14_PostOnly ==
    [][last'.op = "maker_or_cancel" =>
          /\ last'.fills = <<>>
          /\ TreeOfNext(search_side(last'.side)) = TreeOf(search_side(last'.side))
          /\ Marketable(last'.side, last'.price) =>
                last'.outcome = "none" /\ UNCHANGED book]_vars

\* a maker_or_cancel that would have crossed the opposite side was dropped
C14_Witness ==
    /\ last.op = "maker_or_cancel"
    /\ last.outcome = "none"
    /\ Marketable(last.side, last.price)

\* a maker_or_cancel rested its order while the opposite side held orders
\* (three resting orders: reached with MaxOrders = 3)
C14_WitnessRests ==
    /\ last.op = "maker_or_cancel"
    /\ last.outcome = "fills"
    /\ TwoSided
    /\ \E pl \in Places(TreeOf(last.side)) :
          TreeOf(last.side)[pl[1]].orders[pl[2]].id = last.order_id

(* -------------------------------- C15 ---------------------------------- *)
\* the best price of the call's own side, with the empty-side sentinels
OwnBest(side) ==
    IF side = "BID"
    THEN IF DOMAIN bid_limits = {} THEN 0 ELSE SetMax(DOMAIN bid_limits)
    ELSE IF DOMAIN ask_limits = {} THEN QUOTE_LIMIT ELSE SetMin(DOMAIN ask_limits)

\* the own side's best price is at least as aggressive as the price
OwnSideCovers(side, price) ==
    IF side = "BID" THEN OwnBest(side) >= price ELSE OwnBest(side) <= price

\* the resting orders of the call's own side that carry the call's id
RestingOf(tree, c) ==
    {pl \in Places(tree) : tree[pl[1]].orders[pl[2]].id = c.order_id
                           /\ pl[1] = c.price}

\* C15: the crossing check of maker_or_cancel.  A maker_or_cancel(side,
\* price, volume) with volume > 0 goes on to limit(..., cancel = false)
\* exactly when the own side's best price compares against the price (BID:
\* best bid >= price; ASK: best ask <= price; 0 and the unbounded sentinel
\* for an empty side); otherwise it is dropped, with both side books,
\* order_count and last_datetime unchanged.  So a maker_or_cancel on an
\* empty own side, or at a price better than the own side's best, rests
\* nothing.
C15_CrossingCheck ==
    [][last'.op = "maker_or_cancel" /\ last'.volume > 0 /\ last'.side \in Sides =>
          LET c == last'
              own == TreeOf(c.side)
              ownNext == TreeOfNext(c.side)
          IN  /\ OwnSideCovers(c.side, c.price) <=> c.outcome # "none"
              /\ c.outcome # "none" =>
                    IF invalid_price(c.price) THEN c.outcome = "InvalidPrice"
                                              ELSE Walked(c)
              /\ Walked(c) => /\ c.cancel = FALSE
                              /\ NumOrders(ownNext) = NumOrders(own) + 1
                              /\ Cardinality(RestingOf(ownNext, c)) =
                                    Cardinality(RestingOf(own, c)) + 1
              /\ ~OwnSideCovers(c.side, c.price) =>
                    c.outcome = "none" /\ UNCHANGED <<book, counters>>
              /\ (DOMAIN own = {} \/ Better(c.side, OwnBest(c.side), c.price)) =>
                    UNCHANGED book]_vars

\* a maker_or_cancel passed the test at the own side's best price and rested
C15_Witness ==
    /\ last.op = "maker_or_cancel"
    /\ Walked(last)
    /\ OwnBest(last.side) = last.price
    /\ Len(TreeOf(last.side)[last.price].orders) = 2

\* a maker_or_cancel at a price better than the own side's best was dropped
C15_WitnessDropped ==
    /\ last.op = "maker_or_cancel"
    /\ last.outcome = "none"
    /\ DOMAIN TreeOf(last.side) # {}
    /\ Better(last.side, OwnBest(last.side), last.price)

(* -------------------------------- C16 ---------------------------------- *)
\* the level at key p of a side book is sound
LevelSound(tree, p) ==
    LET level == tree[p]
    IN  /\ level.orders # <<>>
        /\ level.total_vol > 0
        /\ level.total_vol = SeqSum(level.orders, "vol")
        /\ level.price = p
        /\ \A i \in 1..Len(level.orders) :
              level.orders[i].vol > 0 /\ level.orders[i].price = p

\* C16: price-level integrity.  In every state reached by market, limit,
\* maker_or_cancel, immediate_or_cancel and cancel calls, on both sides:
\* each level's total_vol is the sum of the remaining volumes of its
\* orders, every resting order has remaining volume > 0, every level key
\* is the price of all the orders in it, and no level with total_vol = 0 or
\* without orders is present.
C16_LevelIntegrity ==
    \A kind \in Sides : \A p \in DOMAIN TreeOf(kind) : LevelSound(TreeOf(kind), p)

\* a walk has taken part of the head order of a level that holds two
\* orders, and the level is still there with what remains
C16_Witness ==
    /\ Walked(last)
    /\ last.fills # <<>>
    /\ \E p \in DOMAIN TreeOf(search_side(last.side)) :
          LET level == TreeOf(search_side(last.side))[p]
          IN  /\ Len(level.orders) = 2
              /\ level.orders[1].id = last.fills[Len(last.fills)].order_id
              /\ level.total_vol = 2

\* a walk has emptied a level, which is gone from its side book
C16_WitnessExcised ==
    /\ Walked(last)
    /\ last.fills # <<>>
    /\ last.fills[1].price \notin DOMAIN TreeOf(search_side(last.side))
    /\ DOMAIN TreeOf(search_side(last.side)) # {}

(* -------------------------------- C17 ---------------------------------- *)
\* the fill events of call c hold one that takes `taken` from order o
FillOf(c, o, taken) ==
    \E i \in 1..Len(c.fills) : c.fills[i] = FillEvent(o, taken)

\* the ids of the resting orders of a side book
IdsIn(tree) == {tree[pl[1]].orders[pl[2]].id : pl \in Places(tree)}

\* the ids of the resting orders of both sides
IdsResting == IdsIn(bid_limits) \cup IdsIn(ask_limits)

\* the ids that left the book in the last call: filled by its walk, or
\* cancelled by it, and not resting now
LeftInLastCall ==
    ({last.fills[i].order_id : i \in 1..Len(last.fills)}
        \cup (IF last.op = "cancel" /\ last.outcome = "none"
              THEN {last.order_id} ELSE {}))
    \ IdsResting

\* what a step does to the orders of the level at price p of side kind:
\* nothing; or the call's order is appended behind them; or a walk of an
\* aggressor of the other side fills orders from the head, each fully
\* filled one leaving and at most one losing part of its volume; or a
\* cancel takes one order with the id out
LifecycleStep(kind, p) ==
    LET c == last'
        O == OrdersAt(TreeOf(kind), p)
        On == OrdersAt(TreeOfNext(kind), p)
    IN  \/ On = O
        \/ /\ Walked(c) /\ c.op \in LimitOps /\ ~c.cancel
           /\ c.side = kind /\ c.price = p
           /\ Len(On) = Len(O) + 1
           /\ SubSeq(On, 1, Len(O)) = O
        \/ /\ Walked(c) /\ search_side(c.side) = kind
           /\ \E k \in 0..Len(O) :
                 /\ HeadConsumed(O, On, k)
                 /\ \A j \in 1..k : FillOf(c, O[j], O[j].vol)
                 /\ k < Len(O) /\ On[1].vol < O[k + 1].vol =>
                       FillOf(c, O[k + 1], O[k + 1].vol - On[1].vol)
        \/ /\ c.op = "cancel" /\ c.outcome = "none" /\ c.side = kind
           /\ \E i \in 1..Len(O) : O[i].id = c.order_id /\ On = RemoveAt(O, i)

\* what does hold: once an order rests, its side and price do not change
\* and its volume does not grow; it shrinks only in the walk of an aggressor
\* of the other side, and the order leaves only fully filled or cancelled
C17_Lifecycle ==
    [][\A kind \in Sides : \A p \in DOMAIN TreeOf(kind) : LifecycleStep(kind, p)]_vars

\* C17 as stated: the order lifecycle is one-way.  Besides the above: no
\* operation brings back a filled or cancelled order, so with default ids
\* an id that has left the book never rests again (here: an id that left
\* in one call does not rest after the next call).
C17_AsStated ==
    [][/\ \A kind \in Sides : \A p \in DOMAIN TreeOf(kind) : LifecycleStep(kind, p)
       /\ \A x \in LeftInLastCall : x \notin IdsResting']_vars

\* a walk filled the head order of a level in full and the next one in part
C17_WitnessWalk ==
    /\ Walked(last)
    /\ Len(last.fills) = 2
    /\ last.fills[1].price = last.fills[2].price
    /\ last.fills[2].price \in DOMAIN TreeOf(search_side(last.side))

(* -------------------------------- C18 ---------------------------------- *)
\* the call is a market or limit call (a limit reached through
\* maker_or_cancel or immediate_or_cancel included) that returned its fills
CompletedOrder(c) == c.op \in LimitOps \cup {"market"} /\ c.outcome = "fills"

\* C18: order_count is monotonic.  It starts at 0 and never decreases; a
\* completed market call and a completed limit call, also one reached
\* through maker_or_cancel or immediate_or_cancel, add exactly 1 (once, not
\* twice); a failed validation and a dropped maker_or_cancel or
\* immediate_or_cancel leave it; and last_datetime is the timestamp
\* argument of the most recent completed market or limit call: such a call
\* sets it and no other step changes it.
C18_Counter ==
    /\ order_count = 0
    /\ [][/\ order_count' >= order_count
          /\ CompletedOrder(last') =>
                /\ order_count' = order_count + 1
                /\ last_datetime' = <<last'.timestamp>>
          /\ last'.outcome \in ValidationErrors => UNCHANGED counters
          /\ last'.op \in {"maker_or_cancel", "immediate_or_cancel"}
                /\ last'.outcome = "none" => UNCHANGED counters
          /\ ~CompletedOrder(last') => last_datetime' = last_datetime]_vars

\* a second completed call, at another time than the first, through
\* maker_or_cancel
C18_Witness ==
    /\ CompletedOrder(last)
    /\ last.op = "maker_or_cancel"
    /\ order_count = 2
    /\ last_datetime = <<2>>
    /\ \E pl \in Places(ask_limits) : ask_limits[pl[1]].orders[pl[2]].ts = 1

\* a call refused by the validation after a completed call
C18_WitnessRefused ==
    /\ last.outcome \in ValidationErrors
    /\ order_count = 1
    /\ last_datetime # <<last.timestamp>>

(* -------------------------------- C19 ---------------------------------- *)
\* C19 as stated: default order ids are unique.  When no call passes an
\* order_id, every resting order has as id the value order_count had when
\* it was submitted, so in every state the resting orders of both sides
\* have pairwise distinct ids, each less than order_count (and a cancel
\* finds at most one order with its id).
C19_AsStated ==
    /\ Cardinality(IdsResting) = NumOrders(bid_limits) + NumOrders(ask_limits)
    /\ \A x \in IdsResting : x < order_count
    /\ \A kind \in Sides : \A x \in IdsIn(TreeOf(kind)) :
          Cardinality(PlacesOfId(TreeOf(kind), x)) = 1

\* what does hold: a call takes the value of order_count at its submission
\* as its id, and an order it rests carries that id; the ids of the resting
\* orders are at most order_count
C19_SubmissionId ==
    [][Walked(last') =>
          /\ last'.order_id = order_count
          /\ \A kind \in Sides : \A p \in DOMAIN TreeOfNext(kind) :
                LET O == OrdersAt(TreeOf(kind), p)
                    On == OrdersAt(TreeOfNext(kind), p)
                IN  Len(On) > Len(O) => On[Len(On)].id = order_count
          /\ \A x \in IdsResting' : x <= order_count']_vars

\* two resting orders with distinct ids below order_count
C19_TwoIds == IdsResting = {0, 1} /\ order_count = 2

=============================================================================
